---- MODULE Spec2Model ----
(***************************************************************************)
(* Model of the AICam machining recommendation core:                       *)
(*   MachiningAdvisor            (src/machining_advisor.py)                *)
(*   IntelligentMachiningSystem  (src/intelligent_machining_system.py)     *)
(*   IntelligentRetriever        (src/lightrag_retrieval.py)               *)
(*                                                                         *)
(* Strings of the source that are not ASCII are written as ASCII glosses:  *)
(*   "wu"                 the placeholder U+65E0 ("none")                  *)
(*   "cujiagong"          U+7C97 U+52A0 U+5DE5  (rough machining)          *)
(*   "jingjiagong"        U+7CBE U+52A0 U+5DE5  (finish machining)         *)
(*   "pingmian"           U+5E73 U+9762         (plane, as the text says)  *)
(*   "chuizhimian"        U+5782 U+76F4 U+9762  (vertical face)            *)
(*   "yuanzhu_tongkong"   U+5706 U+67F1 U+901A U+5B54 (cyl. through hole)  *)
(*   "yuanxing_tongkong"  U+5706 U+5F62 U+901A U+5B54 (its synonym)        *)
(*   "yuanzhu_tutai"      U+5706 U+67F1 U+51F8 U+53F0 (cylindrical boss)   *)
(*   "dibixi"             U+5E95 U+58C1 U+94E3  (floor-wall milling)       *)
(*   "pingmian_lunkuoxi"  U+5E73 U+9762 U+8F6E U+5ED3 U+94E3 (contour mill.) *)
(*   "tuijian_muban_ID:"        the answer's label of the template id      *)
(*   "tuijian_jiagong_gongyi:"  its label of the process type              *)
(*   "tuijian_daoju_ID:"        its label of the tool id                   *)
(* Template and tool ids are strings such as P001 and T014; the model      *)
(* numbers them and prints them as "P1", "T1".                             *)
(* Floats are modelled by integers; a dict by a function on its keys.      *)
(***************************************************************************)
EXTENDS Integers, Sequences, FiniteSets, TLC

VARIABLES
    templates,                \* the store's (f:Feature)-[:HAS_PROCESS]->(p:Process) rows
    tools,                    \* the store's (t:Tool) nodes
    driver,                   \* MachiningAdvisor.driver: None or "driver"
    op,                       \* the advisor call made last, with its arguments
    ret,                      \* what that call returned
    pc,                       \* position of the request in process_machining_question
    rule_parameters,          \* process_machining_question's local rule_parameters
    llm_parameters,           \* its local llm_parameters
    final_parameters,         \* its local final_parameters
    reinferred,               \* a second _infer_missing_parameters on the completed value
    machining_recommendation, \* its local machining_recommendation
    result,                   \* what process_machining_question returns
    extracted,                \* what _extract_parameters_from_text returned
    llm_response,             \* what the LLM service did with this request's call
    llm_calls,                \* calls of llm_client.call_llm made for this request
    other,                    \* a second request running on the same instance
    retriever                 \* the IntelligentRetriever's two store clients

vars == <<templates, tools, driver, op, ret, pc, rule_parameters, llm_parameters,
          final_parameters, reinferred, machining_recommendation, result,
          extracted, llm_response, llm_calls, other, retriever>>

advisorVars == <<op, ret>>
requestVars == <<pc, rule_parameters, llm_parameters, final_parameters, reinferred,
                 machining_recommendation, result, extracted, llm_response, llm_calls>>
historyVars == <<extracted, llm_response, llm_calls>>
storeVars == <<templates, tools>>

-----------------------------------------------------------------------------
(* Bounds of the model *)

\* dimension values and tool sizes range over 0..MaxDim
MaxDim == 2
\* at most MaxTools tools in a store
MaxTools == 3
\* at most MaxTemplates process templates in a store
MaxTemplates == 2

-----------------------------------------------------------------------------
(* Values *)

\* Python None, and the null of Cypher (a missing property, a None parameter)
None == "<None>"

\* Python truthiness of a str-or-None value
TruthyStr(s) == s # None /\ s # ""

\* Cypher's = in a WHERE clause: null = anything is not true
CypherEq(a, b) == a # None /\ b # None /\ a = b

Range(s) == {s[i] : i \in DOMAIN s}

\* all the orders in which the rows of S can be listed
ListingsOf(S) == {s \in [1..Cardinality(S) -> S] : Range(s) = S}

Min(a, b) == IF a <= b THEN a ELSE b

FeatureNames == {"yuanzhu_tongkong", "yuanzhu_tutai"}
SurfaceTypes == {"pingmian", "plane"}
ProcessStages == {"cujiagong", "jingjiagong"}
ProcessTypes == {"dibixi"}

-----------------------------------------------------------------------------
(* MachiningAdvisor: the two store queries *)

\* WHERE t.diameter <= $diameter_limit AND t.extension_length > $height
ToolMatchesStrictDiameter(t, diameter_limit, height) ==
    t.diameter < diameter_limit /\ t.extension_length > height

ToolMatches(t, diameter_limit, height) ==
    t.diameter <= diameter_limit /\ t.extension_length > height

\* ORDER BY t.diameter DESC, t.extension_length ASC: a may be listed before b
ToolBeforeAscending(a, b) ==
    \/ a.diameter < b.diameter
    \/ a.diameter = b.diameter /\ a.extension_length <= b.extension_length

ToolBefore(a, b) ==
    \/ a.diameter > b.diameter
    \/ a.diameter = b.diameter /\ a.extension_length <= b.extension_length

\* the record find_suitable_tools builds of a row
ToolInfo(t) ==
    [tool_id |-> t.id, diameter |-> t.diameter, extension_length |-> t.extension_length]

\* the listings the tool query may return: rows equal in both keys come in any order
ToolQuery(diameter_limit, height) ==
    LET rows == {ToolInfo(t) : t \in {u \in tools : ToolMatches(u, diameter_limit, height)}}
    IN  {s \in ListingsOf(rows) :
            \A i, j \in DOMAIN s : i < j => ToolBefore(s[i], s[j])}

\* WHERE f.name = $feature_name
\*   AND (p.surface_type = $surface_type OR p.feature_surface = $surface_type)
\*   AND p.process_stage = $process_stage
TemplateMatchesNoAlias(p, feature_name, surface_type, process_stage) ==
    /\ CypherEq(p.feature_name, feature_name)
    /\ CypherEq(p.surface_type, surface_type)
    /\ CypherEq(p.process_stage, process_stage)

TemplateMatches(p, feature_name, surface_type, process_stage) ==
    /\ CypherEq(p.feature_name, feature_name)
    /\ \/ CypherEq(p.surface_type, surface_type)
       \/ CypherEq(p.feature_surface, surface_type)
    /\ CypherEq(p.process_stage, process_stage)

\* ORDER BY p.template_id: a may be listed before b
TemplateBeforeDescending(a, b) == a.template_id >= b.template_id

TemplateBefore(a, b) == a.template_id <= b.template_id

\* the listings the template query may return
TemplateQuery(feature_name, surface_type, process_stage) ==
    LET rows == {p \in templates :
                    TemplateMatches(p, feature_name, surface_type, process_stage)}
    IN  {s \in ListingsOf(rows) :
            \A i, j \in DOMAIN s : i < j => TemplateBefore(s[i], s[j])}

\* IntelligentMachiningSystem.advisor, the MachiningAdvisor the requests use
advisor == [driver |-> driver]

\* find_suitable_tools: [] without a driver, [] when the query raises
find_suitable_tools(self, diameter_limit, height, raises) ==
    IF self.driver = None \/ raises THEN {<<>>} ELSE ToolQuery(diameter_limit, height)

\* find_process_template: [] without a driver, [] when the query raises
find_process_template(self, feature_name, surface_type, process_stage, raises) ==
    IF self.driver = None \/ raises
    THEN {<<>>}
    ELSE TemplateQuery(feature_name, surface_type, process_stage)

-----------------------------------------------------------------------------
(* The stores and arguments the advisor is exercised on *)

DimValues == 0..MaxDim

ToolIds == 1..MaxTools

\* a tool's diameter and extension length
ToolSizes == 1..MaxDim

ToolStores ==
    UNION {
        {{[id |-> i, diameter |-> f[i][1], extension_length |-> f[i][2]] : i \in ids} :
            f \in [ids -> ToolSizes \X ToolSizes]} :
        ids \in SUBSET ToolIds}

TemplateIds == 1..MaxTemplates

TemplateRows ==
    [feature_name : FeatureNames, surface_type : {"pingmian", None},
     feature_surface : {"pingmian", "chuizhimian"}, process_stage : ProcessStages,
     process_type : ProcessTypes]

WithId(row, i) ==
    [template_id |-> i, feature_name |-> row.feature_name,
     surface_type |-> row.surface_type, feature_surface |-> row.feature_surface,
     process_stage |-> row.process_stage, process_type |-> row.process_type]

TemplateStores ==
    UNION {
        {{WithId(f[i], i) : i \in ids} : f \in [ids -> TemplateRows]} :
        ids \in SUBSET TemplateIds}

NoParameters == [feature_name |-> None, surface_type |-> None, process_stage |-> None,
                 dimensions |-> <<>>]

NoCall == [name |-> "none"]

\* machining_recommendation = None, and no result yet: falsy like an empty dict
NoRecommendation == <<>>
NoResult == <<>>

\* no call of the LLM service made yet
NoResponse == [kind |-> "none"]

\* no second request is running
NoRequest == [pc |-> "absent"]

\* IntelligentRetriever.__init__: a knowledge retriever and a machining advisor
\* of its own, neither of them connected
\* (initialized: initialize() has returned True)
RetrieverCreated == [neo4j_retriever |-> [driver |-> None],
                     machining_advisor |-> [driver |-> None],
                     initialized |-> FALSE]

RequestIdle ==
    /\ pc = "idle"
    /\ rule_parameters = NoParameters
    /\ llm_parameters = <<>>
    /\ final_parameters = NoParameters
    /\ reinferred = NoParameters
    /\ machining_recommendation = NoRecommendation
    /\ result = NoResult
    /\ extracted = NoParameters
    /\ llm_response = NoResponse
    /\ llm_calls = 0
    /\ other = NoRequest
    /\ retriever = RetrieverCreated

-----------------------------------------------------------------------------
(* Specification SpecTools: find_suitable_tools called on any store *)

InitTools ==
    /\ tools \in ToolStores
    /\ templates = {}
    /\ driver = None
    /\ op = NoCall
    /\ ret = <<>>
    /\ RequestIdle

\* connect_neo4j: the driver is kept even when the test query raises
ConnectNeo4j ==
    /\ driver = None
    /\ driver' = "driver"
    /\ UNCHANGED <<storeVars, retriever, advisorVars, requestVars, other>>

\* the caller takes the returned list; the advisor is ready for the next call
Return ==
    /\ op # NoCall
    /\ op' = NoCall
    /\ ret' = <<>>
    /\ UNCHANGED <<storeVars, retriever, driver, requestVars, other>>

CallFindSuitableTools ==
    \E diameter_limit \in DimValues, height \in DimValues, raises \in BOOLEAN :
        /\ op = NoCall
        /\ op' = [name |-> "find_suitable_tools", diameter_limit |-> diameter_limit,
                  height |-> height, connected |-> driver # None /\ ~raises]
        /\ ret' \in find_suitable_tools(advisor, diameter_limit, height, raises)
        /\ UNCHANGED <<storeVars, retriever, driver, requestVars, other>>

NextTools == ConnectNeo4j \/ CallFindSuitableTools \/ Return

SpecTools == InitTools /\ [][NextTools]_vars

-----------------------------------------------------------------------------
(* Specification SpecTemplates: find_process_template called on any store *)

InitTemplates ==
    /\ templates \in TemplateStores
    /\ tools = {}
    /\ driver = None
    /\ op = NoCall
    /\ ret = <<>>
    /\ RequestIdle

CallFindProcessTemplate ==
    \E feature_name \in FeatureNames \cup {None},
       surface_type \in {"pingmian", "chuizhimian", None},
       process_stage \in ProcessStages,
       raises \in BOOLEAN :
        /\ op = NoCall
        /\ op' = [name |-> "find_process_template", feature_name |-> feature_name,
                  surface_type |-> surface_type, process_stage |-> process_stage,
                  connected |-> driver # None /\ ~raises]
        /\ ret' \in find_process_template(advisor, feature_name, surface_type, process_stage,
                                            raises)
        /\ UNCHANGED <<storeVars, retriever, driver, requestVars, other>>

NextTemplates == ConnectNeo4j \/ CallFindProcessTemplate \/ Return

SpecTemplates == InitTemplates /\ [][NextTemplates]_vars

-----------------------------------------------------------------------------
(* IntelligentMachiningSystem: parameters, _merge_parameters,                *)
(* _infer_missing_parameters                                                 *)

FieldKeys == {"feature_name", "surface_type", "process_stage"}

DimKeys == {"diameter", "length", "width", "height", "depth"}

\* dict.get(k) is truthy: the key is there and its float is not 0.0
DimTruthy(dimensions, k) == k \in DOMAIN dimensions /\ dimensions[k] # 0

\* dimensions[k] = v
Put(dimensions, k, v) ==
    [x \in DOMAIN dimensions \cup {k} |-> IF x = k THEN v ELSE dimensions[x]]

\* JSON values the LLM may give a dimension: null, a number, a string that
\* spells a number, any other string
JNull == [tag |-> "null"]
JNum(n) == [tag |-> "num", val |-> n]
JNumStr(n) == [tag |-> "numstr", val |-> n]
JBadStr == [tag |-> "badstr"]

\* Python truthiness of such a value: None and 0 are falsy, a non-empty string is truthy
JTruthy(j) == j.tag # "null" /\ (j.tag = "num" => j.val # 0)

\* float(dim_value); float of a string that spells no number raises ValueError
FloatRaises(j) == j.tag = "badstr"
Float(j) == j.val

\* the value of llm_params['dimensions']: null, a mapping, or some other truthy value
JDimsNull == [tag |-> "null"]
JDims(items) == [tag |-> "dict", items |-> items]
JDimsOther == [tag |-> "other"]

\* llm_params.get('dimensions') is truthy
LLMDimensionsTruthy(llm_params) ==
    /\ llm_params # <<>>
    /\ llm_params.dimensions.tag # "null"
    /\ llm_params.dimensions.tag = "dict" => llm_params.dimensions.items # <<>>

\* llm_params['dimensions'].items(), for the values that have items
LLMDimensionItems(llm_params) ==
    IF llm_params # <<>> /\ llm_params.dimensions.tag = "dict"
    THEN llm_params.dimensions.items
    ELSE <<>>

\* the keys of llm_params['dimensions'] whose value the loop copies into merged
CopiedDimKeys(rule_params, llm_params) ==
    {k \in DOMAIN LLMDimensionItems(llm_params) :
        /\ JTruthy(LLMDimensionItems(llm_params)[k])
        /\ ~DimTruthy(rule_params.dimensions, k)}

\* _merge_parameters raises: .items() of a non-mapping, or float() of a copied value
MergeRaises(rule_params, llm_params) ==
    /\ LLMDimensionsTruthy(llm_params)
    /\ \/ llm_params.dimensions.tag = "other"
       \/ \E k \in CopiedDimKeys(rule_params, llm_params) :
             FloatRaises(LLMDimensionItems(llm_params)[k])

\* merged[key] for key in ['feature_name', 'surface_type', 'process_stage']
MergedFieldLLMFirst(rule_params, llm_params, key) ==
    IF llm_params # <<>> /\ TruthyStr(llm_params[key])
    THEN llm_params[key]
    ELSE rule_params[key]

MergedField(rule_params, llm_params, key) ==
    IF llm_params # <<>> /\ TruthyStr(llm_params[key]) /\ ~TruthyStr(rule_params[key])
    THEN llm_params[key]
    ELSE rule_params[key]

\* merged['dimensions'] after the loop over llm_params['dimensions'].items()
MergedDimensions(rule_params, llm_params) ==
    IF LLMDimensionsTruthy(llm_params)
    THEN LET copied == CopiedDimKeys(rule_params, llm_params)
         IN  [k \in DOMAIN rule_params.dimensions \cup copied |->
                 IF k \in copied
                 THEN Float(LLMDimensionItems(llm_params)[k])
                 ELSE rule_params.dimensions[k]]
    ELSE rule_params.dimensions

\* _merge_parameters(rule_params, llm_params), when it returns
MergeParameters(rule_params, llm_params) ==
    [feature_name |-> MergedField(rule_params, llm_params, "feature_name"),
     surface_type |-> MergedField(rule_params, llm_params, "surface_type"),
     process_stage |-> MergedField(rule_params, llm_params, "process_stage"),
     dimensions |-> MergedDimensions(rule_params, llm_params)]

\* parameters['process_stage'] = '<cujiagong>' ; parameters['surface_type'] = 'plane'
DefaultProcessStage == "cujiagong"
DefaultSurfaceType == "plane"
\* parameters['dimensions']['height'] = 10.0
DefaultHeight == 10

\* lines 215-220: length and width from a truthy diameter
InferLengthOnly(dimensions) ==
    IF DimTruthy(dimensions, "diameter") /\ ~DimTruthy(dimensions, "length")
    THEN Put(dimensions, "length", dimensions["diameter"])
    ELSE dimensions

InferLengthWidth(dimensions) ==
    IF DimTruthy(dimensions, "diameter")
    THEN LET diameter == dimensions["diameter"]
             d1 == IF ~DimTruthy(dimensions, "length")
                   THEN Put(dimensions, "length", diameter)
                   ELSE dimensions
         IN  IF ~DimTruthy(d1, "width") THEN Put(d1, "width", diameter) ELSE d1
    ELSE dimensions

\* lines 231-238: the default height
InferHeightIntoDepth(dimensions) ==
    IF ~DimTruthy(dimensions, "height") /\ ~DimTruthy(dimensions, "depth")
    THEN IF "diameter" \in DOMAIN dimensions
         THEN Put(dimensions, "depth", dimensions["diameter"] * 2)
         ELSE Put(dimensions, "height", DefaultHeight)
    ELSE IF DimTruthy(dimensions, "depth") /\ ~DimTruthy(dimensions, "height")
         THEN Put(dimensions, "height", dimensions["depth"])
         ELSE dimensions

InferHeight(dimensions) ==
    IF ~DimTruthy(dimensions, "height") /\ ~DimTruthy(dimensions, "depth")
    THEN IF "diameter" \in DOMAIN dimensions
         THEN Put(dimensions, "height", dimensions["diameter"] * 2)
         ELSE Put(dimensions, "height", DefaultHeight)
    ELSE IF DimTruthy(dimensions, "depth") /\ ~DimTruthy(dimensions, "height")
         THEN Put(dimensions, "height", dimensions["depth"])
         ELSE dimensions

\* _infer_missing_parameters(parameters): the value of parameters when it returns
InferMissingParameters(parameters) ==
    [feature_name |-> parameters.feature_name,
     surface_type |-> IF ~TruthyStr(parameters.surface_type)
                      THEN DefaultSurfaceType
                      ELSE parameters.surface_type,
     process_stage |-> IF ~TruthyStr(parameters.process_stage)
                       THEN DefaultProcessStage
                       ELSE parameters.process_stage,
     dimensions |-> InferHeight(InferLengthWidth(parameters.dimensions))]

\* the error result of process_machining_question's except clause
ErrorResultWithoutErrorField == [answer |-> <<"error">>, confidence |-> 0, error |-> FALSE]

ErrorResult == [answer |-> <<"error">>, confidence |-> 0, error |-> TRUE]

\* step 3a of process_machining_question: final_parameters = _merge_parameters(...).
\* merged is a shallow copy: merged['dimensions'] is rule_parameters['dimensions'],
\* so what the loop writes shows in both.
Merge ==
    /\ pc = "analyzed"
    /\ IF MergeRaises(rule_parameters, llm_parameters)
       THEN /\ pc' = "done"
            /\ result' = ErrorResult
            /\ \E copied \in SUBSET CopiedDimKeys(rule_parameters, llm_parameters) :
                  /\ \A k \in copied : ~FloatRaises(LLMDimensionItems(llm_parameters)[k])
                  /\ rule_parameters' =
                        [rule_parameters EXCEPT !.dimensions =
                            [k \in DOMAIN rule_parameters.dimensions \cup copied |->
                                IF k \in copied
                                THEN Float(LLMDimensionItems(llm_parameters)[k])
                                ELSE rule_parameters.dimensions[k]]]
            /\ UNCHANGED final_parameters
       ELSE /\ pc' = "merged"
            /\ final_parameters' = MergeParameters(rule_parameters, llm_parameters)
            /\ rule_parameters' =
                  [rule_parameters EXCEPT !.dimensions =
                      MergedDimensions(rule_parameters, llm_parameters)]
            /\ UNCHANGED result
    /\ UNCHANGED <<storeVars, retriever, driver, other, historyVars, advisorVars, llm_parameters,
                   reinferred, machining_recommendation>>

\* step 3b: final_parameters = _infer_missing_parameters(final_parameters), which
\* changes its argument in place; its 'dimensions' is still rule_parameters['dimensions']
Infer ==
    /\ pc = "merged"
    /\ pc' = "completed"
    /\ final_parameters' = InferMissingParameters(final_parameters)
    /\ rule_parameters' =
          [rule_parameters EXCEPT !.dimensions =
              InferMissingParameters(final_parameters).dimensions]
    /\ UNCHANGED <<storeVars, retriever, driver, other, historyVars, advisorVars, llm_parameters,
                   reinferred, machining_recommendation, result>>

\* _infer_missing_parameters applied to a copy of the completed value
InferAgain ==
    /\ pc = "completed"
    /\ pc' = "recompleted"
    /\ reinferred' = InferMissingParameters(final_parameters)
    /\ UNCHANGED <<storeVars, retriever, driver, other, historyVars, advisorVars, rule_parameters,
                   llm_parameters, final_parameters, machining_recommendation, result>>

-----------------------------------------------------------------------------
(* Specification SpecMerge: _merge_parameters on any pair of arguments *)

\* _normalize_feature_name's feature_mapping (synonym -> name used in the store):
\*   yuanxing_tongkong, yuankong (U+5706 U+5B54), yuanxingkong (U+5706 U+5F62 U+5B54)
\*       -> yuanzhu_tongkong
\*   juxingkong (U+77E9 U+5F62 U+5B54), fangkong (U+65B9 U+5B54)
\*       -> juxing_tongkong (U+77E9 U+5F62 U+901A U+5B54)
\*   yuantai (U+5706 U+53F0) -> yuanzhu_tutai
\*   juxingcao (U+77E9 U+5F62 U+69FD), fangcao (U+65B9 U+69FD), aocao (U+51F9 U+69FD)
\*       -> juxing_aocao (U+77E9 U+5F62 U+51F9 U+69FD)
feature_mapping ==
    [synonym \in {"yuanxing_tongkong", "yuankong", "yuanxingkong", "juxingkong",
                  "fangkong", "yuantai", "juxingcao", "fangcao", "aocao"} |->
        CASE synonym \in {"yuanxing_tongkong", "yuankong", "yuanxingkong"} -> "yuanzhu_tongkong"
          [] synonym \in {"juxingkong", "fangkong"} -> "juxing_tongkong"
          [] synonym = "yuantai" -> "yuanzhu_tutai"
          [] OTHER -> "juxing_aocao"]

\* a table in which one synonym stands for another synonym
NormalizeFeatureNameBySteps(feature_name) ==
    IF feature_name = "yuankong" THEN "yuanxing_tongkong"
    ELSE IF feature_name \in DOMAIN feature_mapping THEN feature_mapping[feature_name]
    ELSE feature_name

\* feature_mapping.get(feature_name, feature_name)
NormalizeFeatureName(feature_name) ==
    IF feature_name \in DOMAIN feature_mapping
    THEN feature_mapping[feature_name]
    ELSE feature_name

\* what a feature pattern's group(1).strip() can be in the model: nothing but
\* blanks, a name of the store, a synonym
CapturedFeatureNames == {"", "yuanzhu_tongkong", "yuanxing_tongkong"}

\* what _extract_parameters_from_text can put in each field
RuleFeatureNames ==
    {None} \cup {NormalizeFeatureName(name) : name \in CapturedFeatureNames}
RuleSurfaceTypes == {None, "pingmian"}
RuleProcessStages == {None, "jingjiagong"}

\* the dimension keys the merge is exercised on; "radius" is a key the LLM may
\* invent
MergeRuleDimKeys == {"diameter", "height"}
MergeLLMDimKeys == {"diameter", "height", "radius"}

DimensionsOver(keys, values) == UNION {[ks -> values] : ks \in SUBSET keys}

LLMDimValues ==
    {JNull, JBadStr} \cup {JNum(n) : n \in DimValues} \cup {JNumStr(n) : n \in {0, 1}}

\* llm_params with every field of the prompt's schema (null where the LLM had nothing)
LLMParametersOver(features, surfaces, stages, dims) ==
    [feature_name : features, surface_type : surfaces, process_stage : stages,
     dimensions : dims]

\* pairs that differ in the three fields, and pairs that differ in the dimensions
MergeArguments ==
    ([feature_name : RuleFeatureNames, surface_type : RuleSurfaceTypes,
      process_stage : RuleProcessStages,
      dimensions : DimensionsOver({"diameter"}, {1})]
       \X ({<<>>} \cup
           LLMParametersOver({None, "", "yuanzhu_tutai"}, {None, "chuizhimian"},
                             {None, "cujiagong"}, {JDimsNull, JDims(<<>>)})))
    \cup
    ([feature_name : {None}, surface_type : {"pingmian"}, process_stage : {None},
      dimensions : DimensionsOver(MergeRuleDimKeys, DimValues)]
       \X LLMParametersOver({"yuanzhu_tutai"}, {None}, {None},
                            {JDimsOther} \cup
                            {JDims(d) : d \in DimensionsOver(MergeLLMDimKeys, LLMDimValues)}))

InitMerge ==
    /\ retriever = RetrieverCreated
    /\ templates = {}
    /\ tools = {}
    /\ driver = None
    /\ op = NoCall
    /\ ret = <<>>
    /\ pc = "analyzed"
    /\ \E a \in MergeArguments : rule_parameters = a[1] /\ llm_parameters = a[2]
    /\ final_parameters = NoParameters
    /\ reinferred = NoParameters
    /\ machining_recommendation = NoRecommendation
    /\ result = NoResult
    /\ extracted = NoParameters
    /\ llm_response = NoResponse
    /\ llm_calls = 0
    /\ other = NoRequest

NextMerge == Merge

SpecMerge == InitMerge /\ [][NextMerge]_vars

-----------------------------------------------------------------------------
(* Specification SpecInfer: _infer_missing_parameters on any merged value *)

\* the values _merge_parameters can return
MergedParameters ==
    [feature_name : {None, "yuanzhu_tongkong"},
     surface_type : {None, "", "pingmian"},
     process_stage : {None, "", "jingjiagong"},
     dimensions : DimensionsOver(DimKeys, DimValues)]

InitInfer ==
    /\ retriever = RetrieverCreated
    /\ templates = {}
    /\ tools = {}
    /\ driver = None
    /\ op = NoCall
    /\ ret = <<>>
    /\ pc = "merged"
    /\ final_parameters \in MergedParameters
    /\ rule_parameters = [NoParameters EXCEPT !.dimensions = final_parameters.dimensions]
    /\ llm_parameters = <<>>
    /\ reinferred = NoParameters
    /\ machining_recommendation = NoRecommendation
    /\ result = NoResult
    /\ extracted = NoParameters
    /\ llm_response = NoResponse
    /\ llm_calls = 0
    /\ other = NoRequest

NextInfer == Infer \/ InferAgain

SpecInfer == InitInfer /\ [][NextInfer]_vars

-----------------------------------------------------------------------------
(* process_machining_question: the request pipeline *)

\* the keyword arguments process_machining_question passes to the advisor
RecommendationArgumentsDiameterAsLength(parameters) ==
    [feature_name |-> parameters.feature_name,
     surface_type |-> parameters.surface_type,
     process_stage |-> parameters.process_stage,
     length |-> IF "diameter" \in DOMAIN parameters.dimensions
                THEN parameters.dimensions["diameter"]
                ELSE parameters.dimensions["length"],
     width |-> parameters.dimensions["width"],
     height |-> parameters.dimensions["height"]]

RecommendationArguments(parameters) ==
    [feature_name |-> parameters.feature_name,
     surface_type |-> parameters.surface_type,
     process_stage |-> parameters.process_stage,
     length |-> parameters.dimensions["length"],
     width |-> parameters.dimensions["width"],
     height |-> parameters.dimensions["height"]]

\* the condition of step 5: a feature name and truthy length, width and height
MatcherInvokedWithoutFeature(parameters) ==
    /\ DimTruthy(parameters.dimensions, "length")
    /\ DimTruthy(parameters.dimensions, "width")
    /\ DimTruthy(parameters.dimensions, "height")

MatcherInvokedOnAnyHeight(parameters) ==
    /\ TruthyStr(parameters.feature_name)
    /\ DimTruthy(parameters.dimensions, "length")
    /\ DimTruthy(parameters.dimensions, "width")
    /\ "height" \in DOMAIN parameters.dimensions

MatcherInvoked(parameters) ==
    /\ TruthyStr(parameters.feature_name)
    /\ DimTruthy(parameters.dimensions, "length")
    /\ DimTruthy(parameters.dimensions, "width")
    /\ DimTruthy(parameters.dimensions, "height")

\* get_machining_recommendation: the recommendations it may return
\* (recommendation_summary is left out: the ids it joins are strings, so building
\* it does not raise, and nothing reads it)
get_machining_recommendation(self, args, templates_raise, tools_raise) ==
    LET diameter_limit == Min(args.length, args.width)
    IN  {[input_parameters |->
              [feature_name |-> args.feature_name, surface_type |-> args.surface_type,
               process_stage |-> args.process_stage,
               dimensions |-> [length |-> args.length, width |-> args.width,
                               height |-> args.height,
                               diameter_limit |-> diameter_limit]],
          process_templates |-> process_templates,
          suitable_tools |-> suitable_tools] :
            process_templates \in
                find_process_template(self, args.feature_name, args.surface_type,
                                      args.process_stage, templates_raise),
            suitable_tools \in
                find_suitable_tools(self, diameter_limit, args.height, tools_raise)}

\* the ids as the f-string prints them
TemplateIdText(template_id) == "P" \o ToString(template_id)
ToolIdText(tool_id) == "T" \o ToString(tool_id)

\* _generate_standardized_answer: the three labels and the three slots
StandardizedAnswerAllOrNothing(recommendation) ==
    IF recommendation = NoRecommendation
       \/ recommendation.process_templates = <<>>
       \/ recommendation.suitable_tools = <<>>
    THEN <<"tuijian_muban_ID:", "wu", "tuijian_jiagong_gongyi:", "wu",
           "tuijian_daoju_ID:", "wu">>
    ELSE <<"tuijian_muban_ID:", TemplateIdText(recommendation.process_templates[1].template_id),
           "tuijian_jiagong_gongyi:", recommendation.process_templates[1].process_type,
           "tuijian_daoju_ID:", ToolIdText(recommendation.suitable_tools[1].tool_id)>>

StandardizedAnswer(recommendation) ==
    IF recommendation = NoRecommendation
    THEN <<"tuijian_muban_ID:", "wu", "tuijian_jiagong_gongyi:", "wu",
           "tuijian_daoju_ID:", "wu">>
    ELSE LET process_templates == recommendation.process_templates
             template_id == IF process_templates # <<>>
                            THEN TemplateIdText(process_templates[1].template_id)
                            ELSE "wu"
             process_type == IF process_templates # <<>>
                             THEN process_templates[1].process_type
                             ELSE "wu"
             suitable_tools == recommendation.suitable_tools
             tool_id == IF suitable_tools # <<>>
                        THEN ToolIdText(suitable_tools[1].tool_id)
                        ELSE "wu"
         IN  <<"tuijian_muban_ID:", template_id, "tuijian_jiagong_gongyi:", process_type,
               "tuijian_daoju_ID:", tool_id>>

\* the answer's confidence, 0.85, in hundredths
AnswerConfidence == 85

\* the numbers the questions of the requests give a dimension: zero, the smallest
\* and the largest
RuleDimValues == {0, 1, MaxDim}

\* what _extract_parameters_from_text can return
RuleParameters ==
    [feature_name : RuleFeatureNames, surface_type : RuleSurfaceTypes,
     process_stage : RuleProcessStages,
     dimensions : DimensionsOver(DimKeys, RuleDimValues)]

\* the service's failures, as call_llm sees them
LLMFailureKinds == {"timeout", "non200", "raises"}

\* The content of a response is a list of segments: prose without braces, a
\* well-formed JSON object, a lone "{", a lone "}", a "{...}" that is no JSON.
Prose == [seg |-> "prose"]
Object(object) == [seg |-> "object", object |-> object]
OpenBrace == [seg |-> "open"]
CloseBrace == [seg |-> "close"]
BrokenBraces == [seg |-> "broken"]

\* a text with no {...} in it, a text whose {...} json.loads rejects, and a
\* JSON object with prose around it
NoJsonText == <<Prose>>
BadJsonText == <<Prose, BrokenBraces>>
JsonText(object) == <<Prose, Object(object), Prose>>

\* re.search(r'\{.*\}', response, re.DOTALL).group(): the segments from the first
\* "{" of the text to its last "}", <<>> when no "}" follows the first "{"
MatchedBraces(text) ==
    LET opening == {i \in DOMAIN text : text[i].seg \in {"object", "open", "broken"}}
        first == CHOOSE i \in opening : \A j \in opening : i <= j
        closing == {j \in DOMAIN text :
                       \/ j > first /\ text[j].seg \in {"object", "close", "broken"}
                       \/ j = first /\ text[j].seg \in {"object", "broken"}}
        last == CHOOSE j \in closing : \A i \in closing : i <= j
    IN  IF opening = {} THEN <<>>
        ELSE IF closing = {} THEN <<>>
        ELSE SubSeq(text, first, last)

\* json.loads accepts the matched string: it is one object and nothing else
JsonLoads(span) == Len(span) = 1 /\ span[1].seg = "object"

\* the JSON objects the service answers with in the model; the prompt itself
\* offers U+5706 U+5F62 U+901A U+5B54 ("yuanxing_tongkong") as a feature name
LLMObjects ==
    {[feature_name |-> "yuanzhu_tongkong", surface_type |-> None,
      process_stage |-> "cujiagong",
      dimensions |-> JDims([diameter |-> JNum(1), length |-> JNum(MaxDim),
                            width |-> JNumStr(1), height |-> JNull])],
     [feature_name |-> None, surface_type |-> "pingmian", process_stage |-> None,
      dimensions |-> JDims([length |-> JBadStr])],
     [feature_name |-> "yuanxing_tongkong", surface_type |-> None, process_stage |-> None,
      dimensions |-> JDims([length |-> JNum(-1), width |-> JNum(1)])]}

LLMTexts == {NoJsonText, BadJsonText} \cup {JsonText(o) : o \in LLMObjects}

\* what the service may do with one call
LLMResponses ==
    {[kind |-> k] : k \in LLMFailureKinds} \cup {[kind |-> "ok", text |-> t] : t \in LLMTexts}

\* PaiyunLLMClient.call_llm: the content on status 200, else one of its apology
\* sentences (none of which holds a JSON object); it raises nothing
call_llm(response) ==
    IF response.kind = "ok" THEN response.text ELSE NoJsonText

\* _analyze_question_with_llm: the parsed object, or {} when there is no {...} in
\* the text or json.loads raises
AnalyzeQuestionWithLLMKeepingFailure(response) ==
    LET text == call_llm(response)
    IN  IF JsonLoads(MatchedBraces(text))
        THEN MatchedBraces(text)[1].object
        ELSE [feature_name |-> "yuanzhu_tutai", surface_type |-> "chuizhimian",
              process_stage |-> None, dimensions |-> JDimsNull]

AnalyzeQuestionWithLLM(response) ==
    LET text == call_llm(response)
    IN  IF JsonLoads(MatchedBraces(text)) THEN MatchedBraces(text)[1].object ELSE <<>>

\* what _analyze_question_with_llm can return
LLMResults == {AnalyzeQuestionWithLLM(response) : response \in LLMResponses}

\* step 1: rule_parameters = self._extract_parameters_from_text(question); re.search
\* raises TypeError when the question is not a string
Extract ==
    /\ pc = "idle"
    /\ \E is_text \in BOOLEAN :
          IF is_text
          THEN /\ pc' = "extracted"
               /\ rule_parameters' \in RuleParameters
               /\ extracted' = rule_parameters'
               /\ UNCHANGED result
          ELSE /\ pc' = "done"
               /\ result' = ErrorResult
               /\ UNCHANGED <<rule_parameters, extracted>>
    /\ UNCHANGED <<storeVars, retriever, driver, other, advisorVars, llm_parameters,
                   final_parameters, reinferred, machining_recommendation,
                   llm_response, llm_calls>>

\* step 2: llm_parameters = await self._analyze_question_with_llm(question), which
\* awaits llm_client.call_llm once
AnalyzeWithLLMRetrying ==
    /\ pc = "extracted"
    /\ pc' = "analyzed"
    /\ \E response \in LLMResponses :
          /\ llm_response' = response
          /\ llm_calls' = llm_calls + (IF AnalyzeQuestionWithLLM(response) = <<>> THEN 2 ELSE 1)
          /\ llm_parameters' = AnalyzeQuestionWithLLM(response)
    /\ UNCHANGED <<storeVars, retriever, driver, other, advisorVars, rule_parameters,
                   final_parameters, reinferred, machining_recommendation, result,
                   extracted>>

AnalyzeWithLLM ==
    /\ pc = "extracted"
    /\ pc' = "analyzed"
    /\ \E response \in LLMResponses :
          /\ llm_response' = response
          /\ llm_calls' = llm_calls + 1
          /\ llm_parameters' = AnalyzeQuestionWithLLM(response)
    /\ UNCHANGED <<storeVars, retriever, driver, other, advisorVars, rule_parameters,
                   final_parameters, reinferred, machining_recommendation, result,
                   extracted>>

\* step 4: knowledge_context = await self._get_knowledge_context(...); it reads
\* the store through the retriever and swallows what that raises
GetKnowledgeContextDeleting ==
    /\ pc = "completed"
    /\ pc' = "context"
    /\ templates' = {}
    /\ UNCHANGED <<tools, retriever, driver, other, historyVars, advisorVars, rule_parameters,
                   llm_parameters, final_parameters, reinferred,
                   machining_recommendation, result>>

GetKnowledgeContext ==
    /\ pc = "completed"
    /\ pc' = "context"
    /\ UNCHANGED <<storeVars, retriever, driver, other, historyVars, advisorVars, rule_parameters,
                   llm_parameters, final_parameters, reinferred,
                   machining_recommendation, result>>

\* step 5: the advisor is asked when the completed parameters allow it; the
\* tool query is the advisor call made last
Recommend ==
    /\ pc = "context"
    /\ pc' = "recommended"
    /\ IF MatcherInvoked(final_parameters)
       THEN \E templates_raise \in BOOLEAN, tools_raise \in BOOLEAN :
               LET args == RecommendationArguments(final_parameters)
               IN  /\ machining_recommendation' \in
                          get_machining_recommendation(advisor, args, templates_raise,
                                                       tools_raise)
                   /\ op' = [name |-> "find_suitable_tools",
                             diameter_limit |->
                                 machining_recommendation'.input_parameters
                                     .dimensions.diameter_limit,
                             height |-> args.height,
                             connected |-> driver # None /\ ~tools_raise]
                   /\ ret' = machining_recommendation'.suitable_tools
       ELSE /\ machining_recommendation' = NoRecommendation
            /\ UNCHANGED advisorVars
    /\ UNCHANGED <<storeVars, retriever, driver, other, historyVars, rule_parameters,
                   llm_parameters, final_parameters, reinferred, result>>

\* step 6: final_answer = await self._generate_intelligent_answer(...)
Answer ==
    /\ pc = "recommended"
    /\ pc' = "done"
    /\ result' = [answer |-> StandardizedAnswer(machining_recommendation),
                  confidence |-> AnswerConfidence,
                  error |-> FALSE,
                  parameters |-> final_parameters,
                  machining_recommendation |-> machining_recommendation]
    /\ UNCHANGED <<storeVars, retriever, driver, other, historyVars, advisorVars, rule_parameters,
                   llm_parameters, final_parameters, reinferred,
                   machining_recommendation>>

\* the caller has the result; the next question may be asked
NextQuestion ==
    /\ pc = "done"
    /\ pc' = "idle"
    /\ rule_parameters' = NoParameters
    /\ llm_parameters' = <<>>
    /\ final_parameters' = NoParameters
    /\ machining_recommendation' = NoRecommendation
    /\ result' = NoResult
    /\ op' = NoCall
    /\ ret' = <<>>
    /\ extracted' = NoParameters
    /\ llm_response' = NoResponse
    /\ llm_calls' = 0
    /\ UNCHANGED <<storeVars, retriever, driver, other, reinferred>>

\* the store the requests run against
FixtureTemplates ==
    {[template_id |-> 1, feature_name |-> "yuanzhu_tongkong", surface_type |-> None,
      feature_surface |-> "pingmian", process_stage |-> "jingjiagong",
      process_type |-> "pingmian_lunkuoxi"],
     [template_id |-> 2, feature_name |-> "yuanzhu_tongkong", surface_type |-> "pingmian",
      feature_surface |-> "chuizhimian", process_stage |-> "jingjiagong",
      process_type |-> "dibixi"],
     [template_id |-> 3, feature_name |-> "yuanzhu_tongkong", surface_type |-> "plane",
      feature_surface |-> "plane", process_stage |-> "cujiagong",
      process_type |-> "dibixi"],
     [template_id |-> 4, feature_name |-> "yuanzhu_tutai", surface_type |-> "pingmian",
      feature_surface |-> "pingmian", process_stage |-> "cujiagong",
      process_type |-> "dibixi"]}

FixtureTools ==
    {[id |-> 1, diameter |-> 1, extension_length |-> 3],
     [id |-> 2, diameter |-> 2, extension_length |-> 1],
     [id |-> 3, diameter |-> 2, extension_length |-> DefaultHeight + 1],
     [id |-> 4, diameter |-> MaxDim + 1, extension_length |-> DefaultHeight + 1]}

Init ==
    /\ templates = FixtureTemplates
    /\ tools = FixtureTools
    /\ driver = None
    /\ op = NoCall
    /\ ret = <<>>
    /\ RequestIdle

Next ==
    \/ ConnectNeo4j
    \/ Extract
    \/ AnalyzeWithLLM
    \/ Merge
    \/ Infer
    \/ GetKnowledgeContext
    \/ Recommend
    \/ Answer
    \/ NextQuestion

Spec == Init /\ [][Next]_vars

-----------------------------------------------------------------------------
(* Specification SpecConcurrent: two process_machining_question coroutines on *)
(* one IntelligentMachiningSystem. Each has its own frame (its locals) and   *)
(* its own dicts: _extract_parameters_from_text builds a new `parameters`    *)
(* with a new 'dimensions' on every call. They share self.advisor.driver and *)
(* the store. The second request's frame is the record `other`.              *)

\* the rule parameters of the two questions
ConcurrentRuleParameters ==
    {[feature_name |-> "yuanzhu_tongkong", surface_type |-> None, process_stage |-> None,
      dimensions |-> [diameter |-> 1]],
     [feature_name |-> None, surface_type |-> "pingmian", process_stage |-> "jingjiagong",
      dimensions |-> [length |-> MaxDim, width |-> 1]],
     [feature_name |-> "yuanzhu_tongkong", surface_type |-> "pingmian",
      process_stage |-> "jingjiagong", dimensions |-> [diameter |-> 0, height |-> 1]]}

\* the frame of a request that has its rule parameters (step 1 is done)
ExtractedRequest(parameters) ==
    [pc |-> "extracted", rule_parameters |-> parameters, extracted |-> parameters,
     llm_response |-> NoResponse, llm_parameters |-> <<>>,
     final_parameters |-> NoParameters, machining_recommendation |-> NoRecommendation,
     result |-> NoResult]

\* step 2 of the second request
OtherAnalyzeWithLLM ==
    /\ other.pc = "extracted"
    /\ \E response \in LLMResponses :
          other' = [other EXCEPT !.pc = "analyzed",
                                 !.llm_response = response,
                                 !.llm_parameters = AnalyzeQuestionWithLLM(response)]
    /\ UNCHANGED <<storeVars, retriever, driver, advisorVars, requestVars>>

\* step 3a of the second request; the loop writes into its own 'dimensions'
OtherMergeWritingShared ==
    /\ other.pc = "analyzed"
    /\ ~MergeRaises(other.rule_parameters, other.llm_parameters)
    /\ LET merged == MergeParameters(other.rule_parameters, other.llm_parameters)
       IN  /\ other' = [other EXCEPT !.pc = "merged",
                                     !.final_parameters = merged,
                                     !.rule_parameters.dimensions = merged.dimensions]
           /\ rule_parameters' = [rule_parameters EXCEPT !.dimensions = merged.dimensions]
           /\ final_parameters' = [final_parameters EXCEPT !.dimensions = merged.dimensions]
    /\ UNCHANGED <<storeVars, retriever, driver, advisorVars, pc, llm_parameters, reinferred,
                   machining_recommendation, result, historyVars>>

OtherMerge ==
    /\ other.pc = "analyzed"
    /\ IF MergeRaises(other.rule_parameters, other.llm_parameters)
       THEN \E copied \in SUBSET CopiedDimKeys(other.rule_parameters, other.llm_parameters) :
               /\ \A k \in copied :
                     ~FloatRaises(LLMDimensionItems(other.llm_parameters)[k])
               /\ other' =
                     [other EXCEPT
                         !.pc = "done",
                         !.result = ErrorResult,
                         !.rule_parameters.dimensions =
                             [k \in DOMAIN other.rule_parameters.dimensions \cup copied |->
                                 IF k \in copied
                                 THEN Float(LLMDimensionItems(other.llm_parameters)[k])
                                 ELSE other.rule_parameters.dimensions[k]]]
       ELSE LET merged == MergeParameters(other.rule_parameters, other.llm_parameters)
            IN  other' = [other EXCEPT !.pc = "merged",
                                       !.final_parameters = merged,
                                       !.rule_parameters.dimensions = merged.dimensions]
    /\ UNCHANGED <<storeVars, retriever, driver, advisorVars, requestVars>>

\* step 3b of the second request
OtherInfer ==
    /\ other.pc = "merged"
    /\ LET completed == InferMissingParameters(other.final_parameters)
       IN  other' = [other EXCEPT !.pc = "completed",
                                  !.final_parameters = completed,
                                  !.rule_parameters.dimensions = completed.dimensions]
    /\ UNCHANGED <<storeVars, retriever, driver, advisorVars, requestVars>>

\* step 4 of the second request
OtherGetKnowledgeContext ==
    /\ other.pc = "completed"
    /\ other' = [other EXCEPT !.pc = "context"]
    /\ UNCHANGED <<storeVars, retriever, driver, advisorVars, requestVars>>

\* step 5 of the second request
OtherRecommend ==
    /\ other.pc = "context"
    /\ IF MatcherInvoked(other.final_parameters)
       THEN \E templates_raise \in BOOLEAN, tools_raise \in BOOLEAN :
               \E recommendation \in
                     get_machining_recommendation(
                         advisor, RecommendationArguments(other.final_parameters),
                         templates_raise, tools_raise) :
                  other' = [other EXCEPT !.pc = "recommended",
                                         !.machining_recommendation = recommendation]
       ELSE other' = [other EXCEPT !.pc = "recommended",
                                   !.machining_recommendation = NoRecommendation]
    /\ UNCHANGED <<storeVars, retriever, driver, advisorVars, requestVars>>

\* step 6 of the second request
OtherAnswer ==
    /\ other.pc = "recommended"
    /\ other' =
          [other EXCEPT
              !.pc = "done",
              !.result = [answer |-> StandardizedAnswer(other.machining_recommendation),
                          confidence |-> AnswerConfidence,
                          error |-> FALSE,
                          parameters |-> other.final_parameters,
                          machining_recommendation |-> other.machining_recommendation]]
    /\ UNCHANGED <<storeVars, retriever, driver, advisorVars, requestVars>>

InitConcurrent ==
    /\ retriever = RetrieverCreated
    /\ templates = FixtureTemplates
    /\ tools = FixtureTools
    /\ driver = None
    /\ op = NoCall
    /\ ret = <<>>
    /\ pc = "extracted"
    /\ rule_parameters \in ConcurrentRuleParameters
    /\ extracted = rule_parameters
    /\ llm_parameters = <<>>
    /\ final_parameters = NoParameters
    /\ reinferred = NoParameters
    /\ machining_recommendation = NoRecommendation
    /\ result = NoResult
    /\ llm_response = NoResponse
    /\ llm_calls = 0
    /\ other \in {ExtractedRequest(parameters) : parameters \in ConcurrentRuleParameters}

NextConcurrent ==
    \/ ConnectNeo4j
    \/ AnalyzeWithLLM
    \/ Merge
    \/ Infer
    \/ GetKnowledgeContext
    \/ Recommend
    \/ Answer
    \/ OtherAnalyzeWithLLM
    \/ OtherMerge
    \/ OtherInfer
    \/ OtherGetKnowledgeContext
    \/ OtherRecommend
    \/ OtherAnswer

SpecConcurrent == InitConcurrent /\ [][NextConcurrent]_vars

-----------------------------------------------------------------------------
(* Claims C1 - C4: the store queries of MachiningAdvisor *)

ToolCallDone == op.name = "find_suitable_tools" /\ op.connected

TemplateCallDone == op.name = "find_process_template" /\ op.connected

\* C1: on a connected store find_suitable_tools(diameter_limit, height) returns,
\* once each, exactly the stored tools with diameter <= diameter_limit and
\* extension_length > height; a tool whose diameter equals diameter_limit is in
\* the list and a tool whose extension_length equals height is not.
C1_ToolsExactlyTheSuitable ==
    ToolCallDone =>
        /\ Len(ret) = Cardinality(Range(ret))
        /\ \A t \in tools :
              ToolInfo(t) \in Range(ret) <=>
                  (t.diameter <= op.diameter_limit /\ t.extension_length > op.height)
        /\ \A r \in Range(ret) : \E t \in tools : r = ToolInfo(t)
        /\ \A t \in tools :
              (t.diameter = op.diameter_limit /\ t.extension_length > op.height)
                  => ToolInfo(t) \in Range(ret)
        /\ \A t \in tools :
              t.extension_length = op.height => ToolInfo(t) \notin Range(ret)

\* a call that kept a tool of diameter diameter_limit and dropped a tool that
\* fits in diameter but has extension_length = height
C1_Witness ==
    /\ ToolCallDone
    /\ \E t \in tools : t.diameter = op.diameter_limit /\ ToolInfo(t) \in Range(ret)
    /\ \E t \in tools :
          /\ t.diameter <= op.diameter_limit
          /\ t.extension_length = op.height
          /\ ToolInfo(t) \notin Range(ret)

\* C2: the list find_suitable_tools returns is ordered by diameter descending and,
\* among equal diameters, by extension_length ascending; its first element has the
\* largest diameter of the suitable tools and the smallest extension_length
\* among the suitable tools of that diameter.
C2_ToolsOrdered ==
    ToolCallDone =>
        /\ \A i, j \in DOMAIN ret :
              i < j =>
                  \/ ret[i].diameter > ret[j].diameter
                  \/ /\ ret[i].diameter = ret[j].diameter
                     /\ ret[i].extension_length <= ret[j].extension_length
        /\ ret # <<>> =>
              \A t \in tools :
                  (t.diameter <= op.diameter_limit /\ t.extension_length > op.height)
                      => /\ t.diameter <= ret[1].diameter
                         /\ t.diameter = ret[1].diameter
                               => ret[1].extension_length <= t.extension_length

\* a list of three tools with both a step down in diameter and, within one
\* diameter, a step up in extension_length
C2_Witness ==
    /\ ToolCallDone
    /\ Len(ret) = 3
    /\ \E i \in 1..2 : ret[i].diameter > ret[i + 1].diameter
    /\ \E i \in 1..2 :
          /\ ret[i].diameter = ret[i + 1].diameter
          /\ ret[i].extension_length < ret[i + 1].extension_length

\* C3: on a connected store find_process_template(feature_name, surface_type,
\* process_stage), called with strings, returns, once each, exactly the templates
\* whose feature name is feature_name, whose process_stage is process_stage and
\* whose surface_type field or feature_surface field is surface_type; no match
\* gives the empty list.
C3_TemplatesExactlyTheMatching ==
    (TemplateCallDone /\ op.feature_name # None /\ op.surface_type # None) =>
        /\ Len(ret) = Cardinality(Range(ret))
        /\ Range(ret) \subseteq templates
        /\ \A p \in templates :
              p \in Range(ret) <=>
                  /\ p.feature_name = op.feature_name
                  /\ p.process_stage = op.process_stage
                  /\ (p.surface_type = op.surface_type
                         \/ p.feature_surface = op.surface_type)

\* a call that returned a template matched by its feature_surface alone next to a
\* store template of another stage that it left out
C3_Witness ==
    /\ TemplateCallDone
    /\ \E p \in Range(ret) :
          p.surface_type # op.surface_type /\ p.feature_surface = op.surface_type
    /\ \E p \in templates :
          /\ p.feature_name = op.feature_name
          /\ p.process_stage # op.process_stage
          /\ p \notin Range(ret)

\* C4: the list find_process_template returns is in ascending template_id order,
\* so its first element is the matching template with the smallest template_id.
C4_TemplatesAscending ==
    TemplateCallDone =>
        /\ \A i, j \in DOMAIN ret : i < j => ret[i].template_id <= ret[j].template_id
        /\ ret # <<>> =>
              \A p \in templates :
                  TemplateMatches(p, op.feature_name, op.surface_type, op.process_stage)
                      => ret[1].template_id <= p.template_id

\* a returned list of at least two templates
C4_Witness == TemplateCallDone /\ Len(ret) >= 2

-----------------------------------------------------------------------------
(* Claims C6 - C9: _merge_parameters and _infer_missing_parameters *)

C7_RuleDimensionKeptWheneverPresent ==
    [][(pc = "analyzed" /\ pc' = "merged") =>
          /\ \A k \in DOMAIN rule_parameters.dimensions :
                final_parameters'.dimensions[k] = rule_parameters.dimensions[k]
          /\ \A k \in DOMAIN final_parameters'.dimensions
                        \ DOMAIN rule_parameters.dimensions :
                /\ k \in DOMAIN LLMDimensionItems(llm_parameters)
                /\ final_parameters'.dimensions[k]
                       = Float(LLMDimensionItems(llm_parameters)[k])]_vars

\* C8 as stated: after _infer_missing_parameters process_stage, surface_type and
\* the dimensions length, width and height are all present.
C8_CompletedIsFullySpecified ==
    pc = "completed" =>
        /\ TruthyStr(final_parameters.process_stage)
        /\ TruthyStr(final_parameters.surface_type)
        /\ {"length", "width", "height"} \subseteq DOMAIN final_parameters.dimensions

\* C8 as amended: for every merged value _infer_missing_parameters returns a
\* result in which process_stage, surface_type and height are present; length
\* (and likewise width) is present exactly when it was given or a non-zero
\* diameter is given, and is left absent otherwise.
C8_CompletedHasStageSurfaceHeight ==
    [][(pc = "merged" /\ pc' = "completed") =>
          /\ TruthyStr(final_parameters'.process_stage)
          /\ TruthyStr(final_parameters'.surface_type)
          /\ "height" \in DOMAIN final_parameters'.dimensions
          /\ \A k \in {"length", "width"} :
                k \in DOMAIN final_parameters'.dimensions
                    <=> \/ k \in DOMAIN final_parameters.dimensions
                        \/ DimTruthy(final_parameters.dimensions, "diameter")]_vars

\* a completed value with the default stage, surface and height, a width, and
\* no length
C8_Witness ==
    /\ pc = "completed"
    /\ final_parameters.process_stage = DefaultProcessStage
    /\ final_parameters.surface_type = DefaultSurfaceType
    /\ "height" \in DOMAIN final_parameters.dimensions
    /\ final_parameters.dimensions["height"] = DefaultHeight
    /\ "width" \in DOMAIN final_parameters.dimensions
    /\ "length" \notin DOMAIN final_parameters.dimensions

\* C9: _infer_missing_parameters is idempotent: applied to its own result it
\* returns that result, equal in every field and every dimension.
C9_InferIdempotent ==
    pc = "recompleted" => reinferred = final_parameters

\* a value completed twice whose length, width and height the first completion
\* derived from the diameter
C9_Witness ==
    /\ pc = "recompleted"
    /\ DimTruthy(final_parameters.dimensions, "diameter")
    /\ DOMAIN final_parameters.dimensions = {"diameter", "length", "width", "height"}
    /\ final_parameters.dimensions["height"] = 2 * final_parameters.dimensions["diameter"]
    /\ final_parameters.dimensions["height"] > MaxDim
    /\ final_parameters.surface_type = DefaultSurfaceType

-----------------------------------------------------------------------------
(* Claims C5 and C10: the request pipeline *)

\* C5: in every recommendation the diameter_limit of the tool query is
\* min(length, width) of the completed parameters, whatever diameter, height and
\* depth are, also when the diameter is smaller than both length and width.
C5_DiameterLimitIsMinLengthWidth ==
    (pc \in {"recommended", "done"} /\ machining_recommendation # NoRecommendation) =>
        LET diameter_limit ==
                Min(final_parameters.dimensions["length"],
                    final_parameters.dimensions["width"])
        IN  /\ machining_recommendation.input_parameters.dimensions.diameter_limit
                   = diameter_limit
            /\ op.name = "find_suitable_tools"
            /\ op.diameter_limit = diameter_limit
            /\ \A i \in DOMAIN ret : ret[i].diameter <= diameter_limit
            /\ op.connected =>
                  \A t \in tools :
                      (t.diameter <= diameter_limit
                          /\ t.extension_length > final_parameters.dimensions["height"])
                          => ToolInfo(t) \in Range(ret)

\* a recommendation for parameters whose diameter is smaller than both length and
\* width, with a tool larger than that diameter returned
C5_Witness ==
    /\ pc = "recommended"
    /\ machining_recommendation # NoRecommendation
    /\ DimTruthy(final_parameters.dimensions, "diameter")
    /\ final_parameters.dimensions["diameter"] < final_parameters.dimensions["length"]
    /\ final_parameters.dimensions["diameter"] < final_parameters.dimensions["width"]
    /\ \E i \in DOMAIN ret : ret[i].diameter > final_parameters.dimensions["diameter"]

\* C10: the answer _generate_standardized_answer builds has the three-slot shape:
\* the template-id and process-type slots hold the template_id and process_type
\* of the first returned template, or both "wu" when there is none; the tool slot
\* holds the tool_id of the first returned tool, or "wu" when there is none; the
\* template slots and the tool slot are filled independently.
C10_AnswerHasThreeSlots ==
    (pc = "done" /\ ~result.error) =>
        LET has_templates == /\ machining_recommendation # NoRecommendation
                             /\ machining_recommendation.process_templates # <<>>
            has_tools == /\ machining_recommendation # NoRecommendation
                         /\ machining_recommendation.suitable_tools # <<>>
        IN  /\ Len(result.answer) = 6
            /\ result.answer[1] = "tuijian_muban_ID:"
            /\ result.answer[3] = "tuijian_jiagong_gongyi:"
            /\ result.answer[5] = "tuijian_daoju_ID:"
            /\ result.answer[2] =
                  IF has_templates
                  THEN TemplateIdText(
                           machining_recommendation.process_templates[1].template_id)
                  ELSE "wu"
            /\ result.answer[4] =
                  IF has_templates
                  THEN machining_recommendation.process_templates[1].process_type
                  ELSE "wu"
            /\ result.answer[6] =
                  IF has_tools
                  THEN ToolIdText(machining_recommendation.suitable_tools[1].tool_id)
                  ELSE "wu"

\* an answer naming a tool while both template slots hold "wu"
C10_Witness ==
    /\ pc = "done"
    /\ ~result.error
    /\ machining_recommendation # NoRecommendation
    /\ machining_recommendation.process_templates = <<>>
    /\ result.answer[2] = "wu"
    /\ result.answer[4] = "wu"
    /\ result.answer[6] # "wu"

-----------------------------------------------------------------------------
(* Claims C11 - C19: failures, canonical names, positive dimensions, the LLM  *)
(* call, the store                                                           *)

NoFeatureNameSupplied ==
    /\ ~TruthyStr(extracted.feature_name)
    /\ llm_parameters = <<>> \/ ~TruthyStr(llm_parameters.feature_name)

\* C11: when neither rule extraction nor the LLM result supplies a feature_name,
\* the matcher is not asked at all, so the request recommends no process template
\* (no wildcard or partial match), and the template-id and process-type slots of
\* the answer are both "wu".
C11_NoFeatureNameNoTemplate ==
    (pc \in {"recommended", "done"} /\ NoFeatureNameSupplied) =>
        /\ machining_recommendation = NoRecommendation
        /\ (pc = "done" /\ ~result.error) =>
              /\ result.machining_recommendation = NoRecommendation
              /\ result.answer[2] = "wu"
              /\ result.answer[4] = "wu"

\* a finished request whose dimensions alone would have let the matcher in, on a
\* connected store holding templates
C11_Witness ==
    /\ pc = "done"
    /\ ~result.error
    /\ NoFeatureNameSupplied
    /\ MatcherInvokedWithoutFeature(final_parameters)
    /\ driver # None
    /\ templates # {}

\* C12 (as claimed): a request whose store query found no driver, or raised, ends
\* with a result carrying an error field.
C12_UnreachableStoreGivesError ==
    (pc = "done" /\ op.name = "find_suitable_tools" /\ ~op.connected) => result.error

LLMFailed ==
    \/ llm_response.kind \in LLMFailureKinds
    \/ llm_response.kind = "ok" /\ ~JsonLoads(MatchedBraces(llm_response.text))

\* C13: when the LLM call times out, returns a non-200 status, raises, or returns
\* text with no parsable JSON object, _analyze_question_with_llm returns {} and the
\* request goes on without raising; its final parameters are
\* complete(rule-extracted parameters).
C13_FailedLLMLeavesRuleParameters ==
    LLMFailed =>
        /\ llm_parameters = <<>>
        /\ pc \in {"completed", "context", "recommended", "done"} =>
              final_parameters = InferMissingParameters(extracted)
        /\ pc = "done" =>
              /\ ~result.error
              /\ result.parameters = InferMissingParameters(extracted)

\* a finished request whose LLM call timed out and whose completion added something
C13_Witness ==
    /\ pc = "done"
    /\ llm_response.kind = "timeout"
    /\ TruthyStr(extracted.feature_name)
    /\ final_parameters # extracted

\* C14 (as claimed): on a connected store no LLM response makes the request end
\* with an error result.
C14_NoLLMResponseFailsRequest ==
    (pc = "done" /\ driver # None /\ llm_response # NoResponse) => ~result.error

\* C15: an exception that a pipeline step raises does not reach the caller: the
\* step that raised is the request's last, and the request returns a result with
\* an error field, a textual answer and confidence 0.0; every result returned is a
\* structured one.
C15_RaisedExceptionGivesErrorResult ==
    [][/\ (\/ pc = "idle" /\ pc' = "done"
           \/ /\ pc = "analyzed"
              /\ pc' # pc
              /\ MergeRaises(rule_parameters, llm_parameters)) =>
              /\ pc' = "done"
              /\ result'.error
              /\ result'.answer # <<>>
              /\ result'.confidence = 0
       /\ pc' = "done" =>
              {"answer", "confidence", "error"} \subseteq DOMAIN result']_vars

\* _merge_parameters raised in float(), after the LLM call had succeeded
C15_Witness ==
    /\ pc = "done"
    /\ result.error
    /\ llm_response.kind = "ok"
    /\ MergeRaises(rule_parameters, llm_parameters)

\* C16 (as claimed): the feature_name handed to the matcher is never a key of
\* feature_mapping.
C16_MatcherFeatureNameCanonical ==
    (pc \in {"recommended", "done"} /\ machining_recommendation # NoRecommendation) =>
        /\ machining_recommendation.input_parameters.feature_name
               \notin DOMAIN feature_mapping
        /\ NormalizeFeatureName(machining_recommendation.input_parameters.feature_name)
               = machining_recommendation.input_parameters.feature_name

AllPositive(dimensions) == \A k \in DOMAIN dimensions : dimensions[k] > 0

\* C17 (as claimed): every dimension value in the parameters that extract, merge
\* and complete produce is strictly positive.
C17_DimensionsStrictlyPositive ==
    /\ AllPositive(extracted.dimensions)
    /\ AllPositive(rule_parameters.dimensions)
    /\ AllPositive(final_parameters.dimensions)
    /\ machining_recommendation # NoRecommendation =>
          AllPositive(machining_recommendation.input_parameters.dimensions)

\* C18: during one request llm_client.call_llm is called at most once: no step
\* before the analysis calls it, the analysis calls it once whatever comes back,
\* and no later step calls it.
C18_AtMostOneLLMCall ==
    /\ llm_calls <= 1
    /\ pc \in {"idle", "extracted"} => llm_calls = 0
    /\ pc \in {"analyzed", "merged", "completed", "context", "recommended"} => llm_calls = 1

\* a finished request whose only LLM call failed
C18_Witness ==
    /\ pc = "done"
    /\ ~result.error
    /\ LLMFailed
    /\ llm_calls = 1

\* C19: no step of a request, and no query it makes, changes the store: the
\* templates and tools and all their fields stay as they were.
C19_StoreUnchanged ==
    [][templates' = templates /\ tools' = tools]_vars

\* a request that read templates, tools and the knowledge context from the store
C19_Witness ==
    /\ pc = "done"
    /\ driver # None
    /\ machining_recommendation # NoRecommendation
    /\ machining_recommendation.process_templates # <<>>
    /\ machining_recommendation.suitable_tools # <<>>
    /\ templates = FixtureTemplates
    /\ tools = FixtureTools

-----------------------------------------------------------------------------
(* Claim C20: two concurrent requests *)

\* the first request's frame, as a record like `other`
ThisRequest ==
    [pc |-> pc, rule_parameters |-> rule_parameters, extracted |-> extracted,
     llm_response |-> llm_response, llm_parameters |-> llm_parameters,
     final_parameters |-> final_parameters,
     machining_recommendation |-> machining_recommendation, result |-> result]

\* the recommendations a request with these completed parameters gets from the
\* store when it runs alone
RecommendationsAlone(parameters) ==
    IF MatcherInvoked(parameters)
    THEN UNION {get_machining_recommendation(advisor, RecommendationArguments(parameters),
                                             templates_raise, tools_raise) :
                   templates_raise \in BOOLEAN, tools_raise \in BOOLEAN}
    ELSE {NoRecommendation}

\* the frame holds what the request computes from its own rule parameters, its own
\* LLM result and the store
AsWhenRunAlone(request) ==
    LET returned == request.pc = "done" /\ ~request.result.error
    IN  /\ (request.pc \in {"completed", "context", "recommended"} \/ returned) =>
              request.final_parameters =
                  InferMissingParameters(
                      MergeParameters(request.extracted, request.llm_parameters))
        /\ (request.pc = "recommended" \/ returned) =>
              request.machining_recommendation
                  \in RecommendationsAlone(request.final_parameters)
        /\ returned =>
              /\ request.result.parameters = request.final_parameters
              /\ request.result.machining_recommendation = request.machining_recommendation
              /\ request.result.answer = StandardizedAnswer(request.machining_recommendation)
        /\ (request.pc = "done" /\ request.result.error) =>
              MergeRaises(request.extracted, request.llm_parameters)

\* C20: two requests interleaved at any step boundary do not affect each other:
\* a step of one leaves the other's frame as it was, and each frame holds, and each
\* request returns, the parameters and recommendation it gets when run alone with
\* the same LLM and store responses.
C20_ConcurrentRequestsIndependent ==
    /\ [](AsWhenRunAlone(ThisRequest) /\ AsWhenRunAlone(other))
    /\ [][/\ other' # other => ThisRequest' = ThisRequest
          /\ ThisRequest' # ThisRequest => other' = other]_vars

\* both requests have returned a recommendation, for different parameters, the
\* second one having merged LLM dimensions into its own
C20_Witness ==
    /\ pc = "done"
    /\ other.pc = "done"
    /\ ~result.error
    /\ ~other.result.error
    /\ machining_recommendation # NoRecommendation
    /\ other.machining_recommendation # NoRecommendation
    /\ final_parameters # other.final_parameters
    /\ other.final_parameters.dimensions # other.extracted.dimensions

-----------------------------------------------------------------------------
(* Specification SpecExtract: _extract_parameters_from_text called on any    *)
(* text, _normalize_feature_name called on any name                          *)
(*                                                                           *)
(* A text is a list of phrases, written with a comma (U+FF0C) between them.  *)
(* The phrases, as ASCII glosses:                                            *)
(*   "yuanxing_tongkong", "yuanzhu_tutai"   two names of the first feature   *)
(*                                          pattern's alternation            *)
(*   "tezheng_leixing_shi_yuankong"  U+7279 U+5F81 U+7C7B U+578B U+662F      *)
(*                                   U+5706 U+5B54 ("feature type is ...")   *)
(*   "tezheng_wei_yuantai"           U+7279 U+5F81 U+4E3A U+5706 U+53F0      *)
(*   "gongjian_de_tezheng_yinggai_shi_fangkong"                              *)
(*        U+5DE5 U+4EF6 U+7684 U+7279 U+5F81 U+5E94 U+8BE5 U+662F U+65B9     *)
(*        U+5B54 ("the workpiece's feature should be ...")                   *)
(*   "you_yige_ aocao"               U+6709 U+4E00 U+4E2A, a blank, U+51F9   *)
(*                                   U+69FD ("there is a ...")               *)
(*   "cujiagong", "xuyao_jingjiagong" (U+9700 U+8981 ...),                   *)
(*   "jinxing_banjingjiagong" (U+8FDB U+884C U+534A U+7CBE U+52A0 U+5DE5)    *)
(*   "pingmian", "biaomian_shi_chuizhimian" (U+8868 U+9762 U+662F ...),      *)
(*   "mian_wei_yuanzhumian" (U+9762 U+4E3A U+5706 U+67F1 U+9762)             *)
(*   "zhijing_1mm", "zhijing_2mm" (U+76F4 U+5F84 2mm),                       *)
(*   "kongzhijing_shi_2mm" (U+5B54 U+76F4 U+5F84 U+662F 2mm),                *)
(*   "changdu_wei_1mm", "kuandu_2mm", "gaodu_shi_1mm", "shendu_2mm"          *)
(*   "zenme_jiagong"                 U+600E U+4E48 U+52A0 U+5DE5, which no   *)
(*                                   pattern matches                         *)

\* a text has at most MaxPhrases phrases
MaxPhrases == 2

\* what a pattern's group(1) is in each phrase the pattern matches in
feature_extraction ==
    << [kind |-> "local", captures |-> "yuanxing_tongkong" :> "yuanxing_tongkong"
                                       @@ "yuanzhu_tutai" :> "yuanzhu_tutai"],
       [kind |-> "local", captures |-> "tezheng_leixing_shi_yuankong" :> "yuankong"],
       [kind |-> "local", captures |-> "tezheng_wei_yuantai" :> "yuantai"],
       [kind |-> "greedy",
        captures |-> "gongjian_de_tezheng_yinggai_shi_fangkong" :> "fangkong"],
       [kind |-> "local", captures |-> "you_yige_ aocao" :> " aocao"] >>

process_stage_extraction ==
    << [kind |-> "local", captures |-> "cujiagong" :> "cujiagong"
                                       @@ "xuyao_jingjiagong" :> "jingjiagong"
                                       @@ "jinxing_banjingjiagong" :> "banjingjiagong"],
       [kind |-> "local", captures |-> "xuyao_jingjiagong" :> "jingjiagong"],
       [kind |-> "local", captures |-> "jinxing_banjingjiagong" :> "banjingjiagong"] >>

surface_type_extraction ==
    << [kind |-> "local", captures |-> "pingmian" :> "pingmian"
                                       @@ "biaomian_shi_chuizhimian" :> "chuizhimian"
                                       @@ "mian_wei_yuanzhumian" :> "yuanzhumian"],
       [kind |-> "local", captures |-> "biaomian_shi_chuizhimian" :> "chuizhimian"],
       [kind |-> "local", captures |-> "biaomian_shi_chuizhimian" :> "chuizhimian"
                                       @@ "mian_wei_yuanzhumian" :> "yuanzhumian"] >>

\* key: the dimension the code picks by looking for its word in the pattern; the
\* word of the diameter is part of the second pattern as well as of the first
dimension_extraction ==
    << [key |-> "diameter", captures |-> "zhijing_1mm" :> "1" @@ "zhijing_2mm" :> "2"
                                         @@ "kongzhijing_shi_2mm" :> "2"],
       [key |-> "diameter", captures |-> "kongzhijing_shi_2mm" :> "2"],
       [key |-> "length", captures |-> "changdu_wei_1mm" :> "1"],
       [key |-> "width", captures |-> "kuandu_2mm" :> "2"],
       [key |-> "height", captures |-> "gaodu_shi_1mm" :> "1"],
       [key |-> "depth", captures |-> "shendu_2mm" :> "2"] >>

\* what follows the last "shi"/"wei" (U+662F, U+4E3A) of a phrase that has one
AfterShi ==
    "tezheng_leixing_shi_yuankong" :> "yuankong"
    @@ "tezheng_wei_yuantai" :> "yuantai"
    @@ "gongjian_de_tezheng_yinggai_shi_fangkong" :> "fangkong"
    @@ "kongzhijing_shi_2mm" :> "2mm"
    @@ "changdu_wei_1mm" :> "1mm"
    @@ "gaodu_shi_1mm" :> "1mm"
    @@ "biaomian_shi_chuizhimian" :> "chuizhimian"
    @@ "mian_wei_yuanzhumian" :> "yuanzhumian"

Phrases ==
    UNION {DOMAIN pattern.captures :
           pattern \in Range(feature_extraction) \cup Range(process_stage_extraction)
                       \cup Range(surface_type_extraction) \cup Range(dimension_extraction)}
    \cup {"zenme_jiagong"}

Texts == UNION {[1..n -> Phrases] : n \in 0..MaxPhrases}

First(S) == CHOOSE i \in S : \A j \in S : i <= j
Last(S) == CHOOSE i \in S : \A j \in S : j <= i

\* the phrases of the text a pattern matches in
MatchesIn(pattern, text) == {i \in DOMAIN text : text[i] \in DOMAIN pattern.captures}

\* re.search(pattern, text): None, or group(1) of the leftmost match. The fourth
\* feature pattern's two greedy ".*" run to the last "shi"/"wei" of the text.
Search(pattern, text) ==
    LET hits == MatchesIn(pattern, text)
    IN  IF hits = {} THEN None
        ELSE IF pattern.kind = "local" THEN pattern.captures[text[First(hits)]]
        ELSE AfterShi[text[Last({i \in DOMAIN text :
                                    i >= First(hits) /\ text[i] \in DOMAIN AfterShi})]]

\* for pattern in patterns: match = re.search(...); if match: ...; break
FirstMatchLastListed(patterns, text) ==
    LET matching == {k \in DOMAIN patterns : Search(patterns[k], text) # None}
    IN  IF matching = {} THEN None ELSE Search(patterns[Last(matching)], text)

FirstMatch(patterns, text) ==
    LET matching == {k \in DOMAIN patterns : Search(patterns[k], text) # None}
    IN  IF matching = {} THEN None ELSE Search(patterns[First(matching)], text)

\* str.strip() of a captured name
Strip(name) == IF name = " aocao" THEN "aocao" ELSE name

\* float() of the digits a dimension pattern captured
FloatOfDigits == "1" :> 1 @@ "2" :> 2

\* for pattern in patterns: for match in re.findall(pattern, text): the key of
\* the pattern is set to float(match); the assignment made last stays
ExtractedDimensions(text) ==
    LET setting(key) == {k \in DOMAIN dimension_extraction :
                            /\ dimension_extraction[k].key = key
                            /\ MatchesIn(dimension_extraction[k], text) # {}}
        keys == {key \in DimKeys : setting(key) # {}}
    IN  [key \in keys |->
            LET pattern == dimension_extraction[Last(setting(key))]
            IN  FloatOfDigits[pattern.captures[text[Last(MatchesIn(pattern, text))]]]]

ExtractParametersFromText(text) ==
    [feature_name |->
        LET match == FirstMatch(feature_extraction, text)
        IN  IF match = None THEN None ELSE NormalizeFeatureName(Strip(match)),
     surface_type |-> FirstMatch(surface_type_extraction, text),
     process_stage |-> FirstMatch(process_stage_extraction, text),
     dimensions |-> ExtractedDimensions(text)]

\* names _normalize_feature_name is called on: every synonym, every name the
\* synonyms stand for, and names the table does not know
RawFeatureNames ==
    DOMAIN feature_mapping \cup Range(feature_mapping)
    \cup {"", "yuanxing_mangkong", "2mm"}

InitExtract ==
    /\ templates = {}
    /\ tools = {}
    /\ driver = None
    /\ op = NoCall
    /\ ret = <<>>
    /\ RequestIdle

CallExtractParametersFromText ==
    \E text \in Texts :
        /\ op = NoCall
        /\ op' = [name |-> "_extract_parameters_from_text", text |-> text]
        /\ ret' = ExtractParametersFromText(text)
        /\ UNCHANGED <<storeVars, retriever, driver, requestVars, other>>

\* called on a name, or on what the call before it returned (raw: the name the
\* first of the two calls was given)
CallNormalizeFeatureName ==
    \E feature_name \in RawFeatureNames :
        /\ \/ op = NoCall
           \/ op.name = "_normalize_feature_name" /\ ~op.again /\ feature_name = ret
        /\ op' = [name |-> "_normalize_feature_name", feature_name |-> feature_name,
                  again |-> op # NoCall,
                  raw |-> IF op = NoCall THEN feature_name ELSE op.feature_name]
        /\ ret' = NormalizeFeatureName(feature_name)
        /\ UNCHANGED <<storeVars, retriever, driver, requestVars, other>>

NextExtract == CallExtractParametersFromText \/ CallNormalizeFeatureName \/ Return

SpecExtract == InitExtract /\ [][NextExtract]_vars

-----------------------------------------------------------------------------
(* Claims C21, C22, C25: the pattern extractor and the normalizer *)

\* the single-valued fields with their pattern lists; only the feature name is
\* stripped and normalized
SingleValuedFields ==
    { [key |-> "feature_name", patterns |-> feature_extraction],
      [key |-> "process_stage", patterns |-> process_stage_extraction],
      [key |-> "surface_type", patterns |-> surface_type_extraction] }

Stored(field, match) ==
    IF field.key = "feature_name" THEN NormalizeFeatureName(Strip(match)) ELSE match

ExtractCallDone == op # NoCall /\ op.name = "_extract_parameters_from_text"

\* C21: for the feature name, the stage and the surface type, the value comes
\* from the first pattern of the list that matches anywhere in the text, also
\* when a pattern further down the list matches earlier in the text; a field no
\* pattern matches is None.
C21_FirstListedPatternWins ==
    ExtractCallDone =>
        \A field \in SingleValuedFields :
            /\ \A k \in DOMAIN field.patterns :
                (/\ Search(field.patterns[k], op.text) # None
                 /\ \A j \in 1..(k - 1) : Search(field.patterns[j], op.text) = None)
                => ret[field.key] = Stored(field, Search(field.patterns[k], op.text))
            /\ (\A k \in DOMAIN field.patterns : Search(field.patterns[k], op.text) = None)
                => ret[field.key] = None

\* the fifth feature pattern matches in the first phrase, the first pattern in
\* the second phrase, and the first pattern's name is the one returned
C21_Witness ==
    /\ ExtractCallDone
    /\ op.text = <<"you_yige_ aocao", "yuanzhu_tutai">>
    /\ ret.feature_name = "yuanzhu_tutai"

\* the phrases of the text that state the dimension: those a pattern of its key
\* matches in
Stating(key, text) ==
    UNION {MatchesIn(dimension_extraction[k], text) :
           k \in {j \in DOMAIN dimension_extraction : dimension_extraction[j].key = key}}

\* the number a phrase states for the dimension
Stated(key, phrase) ==
    LET k == First({j \in DOMAIN dimension_extraction :
                        /\ dimension_extraction[j].key = key
                        /\ phrase \in DOMAIN dimension_extraction[j].captures})
    IN  FloatOfDigits[dimension_extraction[k].captures[phrase]]

\* C22: every dimension the text states is extracted under its key, a dimension
\* the text does not state is not, and when the text states a dimension several
\* times the value kept is the one of the last statement in the text.
C22_LastStatementKept ==
    ExtractCallDone =>
        \A key \in DimKeys :
            IF Stating(key, op.text) = {}
            THEN key \notin DOMAIN ret.dimensions
            ELSE /\ key \in DOMAIN ret.dimensions
                 /\ ret.dimensions[key] = Stated(key, op.text[Last(Stating(key, op.text))])

-----------------------------------------------------------------------------
(* Claims C23, C24: the rules of _infer_missing_parameters on the dimensions *)

\* C23: when the diameter is present, a length that is missing becomes the
\* diameter and a width that is missing becomes the diameter, each on its own; a
\* length or width that is present keeps its value; without a diameter neither
\* is created.
C23_LengthWidthFromDiameter ==
    [][(pc = "merged" /\ pc' = "completed") =>
          \A k \in {"length", "width"} :
              IF k \in DOMAIN final_parameters.dimensions
              THEN /\ k \in DOMAIN final_parameters'.dimensions
                   /\ final_parameters'.dimensions[k] = final_parameters.dimensions[k]
              ELSE IF "diameter" \in DOMAIN final_parameters.dimensions
                   THEN /\ k \in DOMAIN final_parameters'.dimensions
                        /\ final_parameters'.dimensions[k]
                               = final_parameters.dimensions["diameter"]
                   ELSE k \notin DOMAIN final_parameters'.dimensions]_vars

\* C24: after the completion the height is present; it is the height given when
\* one is given, else the depth when one is given, else twice the diameter when
\* a diameter is present, else the default height.
C24_HeightByRules ==
    [][(pc = "merged" /\ pc' = "completed") =>
          /\ "height" \in DOMAIN final_parameters'.dimensions
          /\ final_parameters'.dimensions["height"] =
                IF "height" \in DOMAIN final_parameters.dimensions
                THEN final_parameters.dimensions["height"]
                ELSE IF "depth" \in DOMAIN final_parameters.dimensions
                THEN final_parameters.dimensions["depth"]
                ELSE IF "diameter" \in DOMAIN final_parameters.dimensions
                THEN 2 * final_parameters.dimensions["diameter"]
                ELSE DefaultHeight]_vars

-----------------------------------------------------------------------------
(* Claim C25: _normalize_feature_name *)

NormalizeCallDone == op # NoCall /\ op.name = "_normalize_feature_name"

\* the four names the synonyms stand for
CanonicalFeatureNames ==
    {"yuanzhu_tongkong", "juxing_tongkong", "yuanzhu_tutai", "juxing_aocao"}

\* C25: _normalize_feature_name returns, for each of the nine synonyms, one of
\* the four names the synonyms stand for, and for any other name that name; what
\* it returns is never a synonym, so that normalizing the result again returns
\* the result.
C25_NormalizeIdempotent ==
    NormalizeCallDone =>
        /\ op.feature_name \in
              {"yuanxing_tongkong", "yuankong", "yuanxingkong", "juxingkong", "fangkong",
               "yuantai", "juxingcao", "fangcao", "aocao"}
              => ret \in CanonicalFeatureNames
        /\ op.feature_name \notin DOMAIN feature_mapping => ret = op.feature_name
        /\ ret \notin DOMAIN feature_mapping
        /\ op.again => ret = op.feature_name

\* a synonym normalized, and the name it stands for normalized again
C25_Witness ==
    /\ NormalizeCallDone
    /\ op.again
    /\ op.raw = "yuankong"
    /\ op.feature_name = "yuanzhu_tongkong"
    /\ ret = "yuanzhu_tongkong"

-----------------------------------------------------------------------------
(* Specification SpecAnalyze: _analyze_question_with_llm on any response *)

\* a response text has at most MaxSegments segments
MaxSegments == 3

Segments ==
    {Prose, OpenBrace, CloseBrace, BrokenBraces} \cup {Object(o) : o \in LLMObjects}

AnalyzeTexts == UNION {[1..n -> Segments] : n \in 1..MaxSegments}

AnalyzeResponses ==
    {[kind |-> k] : k \in LLMFailureKinds}
    \cup {[kind |-> "ok", text |-> t] : t \in AnalyzeTexts}

InitAnalyze ==
    /\ templates = {}
    /\ tools = {}
    /\ driver = None
    /\ op = NoCall
    /\ ret = <<>>
    /\ RequestIdle

CallAnalyzeQuestionWithLLM ==
    \E response \in AnalyzeResponses :
        /\ op = NoCall
        /\ op' = [name |-> "_analyze_question_with_llm", response |-> response]
        /\ ret' = AnalyzeQuestionWithLLM(response)
        /\ UNCHANGED <<storeVars, retriever, driver, requestVars, other>>

NextAnalyze == CallAnalyzeQuestionWithLLM \/ Return

SpecAnalyze == InitAnalyze /\ [][NextAnalyze]_vars

-----------------------------------------------------------------------------
(* Claim C26: the JSON object taken from the LLM's text *)

\* C26: when the first brace of the response text opens a well-formed JSON
\* object, _analyze_question_with_llm returns that object, whatever follows it
\* in the text, further braces and a second object included.
C26_FirstObjectParsed ==
    (op # NoCall /\ op.name = "_analyze_question_with_llm" /\ op.response.kind = "ok") =>
        \A i \in DOMAIN op.response.text :
            (/\ op.response.text[i].seg = "object"
             /\ \A j \in 1..(i - 1) : op.response.text[j].seg = "prose")
            => ret = op.response.text[i].object

-----------------------------------------------------------------------------
(* Claim C27: the keys of the merged parameters *)

\* C27: the merged parameters hold the four fields feature_name, surface_type,
\* process_stage and dimensions and nothing else, and the keys of their
\* dimensions are among diameter, length, width, height and depth: a dimension
\* key of the LLM result outside these five is not copied.
C27_OnlyRecognizedKeys ==
    pc = "merged" =>
        /\ DOMAIN final_parameters
              = {"feature_name", "surface_type", "process_stage", "dimensions"}
        /\ DOMAIN final_parameters.dimensions \subseteq DimKeys

-----------------------------------------------------------------------------
(* Claim C28: when the matcher is invoked *)

\* the completed parameters name a feature and hold a non-zero length, width
\* and height
HasFeatureAndSize ==
    /\ final_parameters.feature_name \notin {None, ""}
    /\ \A k \in {"length", "width", "height"} :
          /\ k \in DOMAIN final_parameters.dimensions
          /\ final_parameters.dimensions[k] # 0

\* C28: the matcher is invoked exactly when the completed parameters name a
\* feature and hold a non-zero length, width and height. Otherwise the request
\* issues no store query, has no recommendation, and its answer holds "wu" in
\* all three slots.
C28_MatcherInvokedExactlyOnFeatureAndSize ==
    (pc \in {"recommended", "done"} /\ (pc = "done" => ~result.error)) =>
        IF HasFeatureAndSize
        THEN /\ machining_recommendation # NoRecommendation
             /\ op # NoCall
             /\ op.name = "find_suitable_tools"
        ELSE /\ machining_recommendation = NoRecommendation
             /\ op = NoCall
             /\ pc = "done" =>
                   /\ result.machining_recommendation = NoRecommendation
                   /\ result.answer[2] = "wu"
                   /\ result.answer[4] = "wu"
                   /\ result.answer[6] = "wu"

\* a finished request for a named feature with a length and a height and no
\* width, on a connected store holding a tool that fits the length and height:
\* nothing is recommended
C28_Witness ==
    /\ pc = "done"
    /\ ~result.error
    /\ TruthyStr(final_parameters.feature_name)
    /\ DimTruthy(final_parameters.dimensions, "length")
    /\ DimTruthy(final_parameters.dimensions, "height")
    /\ "width" \notin DOMAIN final_parameters.dimensions
    /\ driver # None
    /\ \E t \in tools :
          /\ t.diameter <= final_parameters.dimensions["length"]
          /\ t.extension_length > final_parameters.dimensions["height"]
    /\ op = NoCall
    /\ result.answer[2] = "wu"
    /\ result.answer[4] = "wu"
    /\ result.answer[6] = "wu"

-----------------------------------------------------------------------------
(* Claim C29: the arguments of _merge_parameters *)

\* C29: _merge_parameters leaves both its arguments as they were, and what
\* _infer_missing_parameters then adds to the merged value does not show up in
\* rule_parameters: from the merge on, rule_parameters is still what the
\* extraction returned.
C29_MergeLeavesArgumentsUnchanged ==
    /\ [](pc \in {"merged", "completed", "context", "recommended"}
             => rule_parameters = extracted)
    /\ [][(pc = "analyzed" /\ pc' = "merged") => llm_parameters' = llm_parameters]_vars

-----------------------------------------------------------------------------
(* Specification SpecRetriever: IntelligentRetriever.initialize and           *)
(* IntelligentRetriever.get_machining_recommendation on the store of the      *)
(* requests                                                                   *)

InitRetriever ==
    /\ templates = FixtureTemplates
    /\ tools = FixtureTools
    /\ driver = None
    /\ op = NoCall
    /\ ret = <<>>
    /\ RequestIdle

\* initialize(): True when neo4j_retriever.connect_neo4j() is; that call keeps
\* the driver it made also when its test query raises. Nothing else is connected.
RetrieverInitialize ==
    /\ ~retriever.initialized
    /\ \E outcome \in {"connected", "test_query_raises", "no_driver"} :
          retriever' =
              [retriever EXCEPT
                  !.neo4j_retriever.driver =
                      IF outcome = "no_driver" THEN @ ELSE "driver",
                  !.initialized = (outcome = "connected")]
    /\ UNCHANGED <<storeVars, driver, advisorVars, requestVars, other>>

\* the features and sizes the retriever is asked about
RetrieverArguments ==
    [feature_name : FeatureNames \cup {None}, surface_type : {"pingmian", "plane"},
     process_stage : ProcessStages, length : 1..MaxDim, width : 1..MaxDim,
     height : 1..MaxDim]

\* get_machining_recommendation(...): the recommendation of the retriever's own
\* machining_advisor, with the explanation of the LLM (call_llm raises nothing)
CallRetrieverGetMachiningRecommendation ==
    \E args \in RetrieverArguments, templates_raise \in BOOLEAN, tools_raise \in BOOLEAN :
        /\ op = NoCall
        /\ op' = [name |-> "retriever.get_machining_recommendation", args |-> args,
                  raised |-> templates_raise \/ tools_raise]
        /\ \E recommendation \in
                  get_machining_recommendation(retriever.machining_advisor, args,
                                               templates_raise, tools_raise) :
              ret' = [recommendation |-> recommendation,
                      feature_info |-> [feature_name |-> args.feature_name,
                                        feature_surface |-> args.surface_type,
                                        process_stage |-> args.process_stage]]
        /\ UNCHANGED <<storeVars, retriever, driver, requestVars, other>>

NextRetriever ==
    RetrieverInitialize \/ ConnectNeo4j \/ CallRetrieverGetMachiningRecommendation \/ Return

SpecRetriever == InitRetriever /\ [][NextRetriever]_vars

-----------------------------------------------------------------------------
(* Claim C30: the retriever's machining advisor *)

\* C30: once initialize() has returned True, the retriever's own machining
\* advisor is connected, and get_machining_recommendation returns the templates
\* and tools of the store that match, in the order of the queries, when no query
\* raises.
C30_InitializedRetrieverRecommends ==
    retriever.initialized =>
        /\ retriever.machining_advisor.driver # None
        /\ (/\ op # NoCall
            /\ op.name = "retriever.get_machining_recommendation"
            /\ ~op.raised)
            => /\ ret.recommendation.process_templates \in
                      TemplateQuery(op.args.feature_name, op.args.surface_type,
                                    op.args.process_stage)
               /\ ret.recommendation.suitable_tools \in
                      ToolQuery(Min(op.args.length, op.args.width), op.args.height)

====
